---------------------------- MODULE Spec2Model ----------------------------
(***************************************************************************)
(* ViperASM instruction synthesis (src/synthesis.go).                      *)
(*                                                                         *)
(* A 32-bit word is modelled as the set of its bit positions that are 1    *)
(* (a subset of 0..31): OR is union, AND is intersection, a left shift     *)
(* adds to every position and drops what leaves bit 31 (uint32 width).     *)
(* A Go pointer is a sequence: <<>> is nil, <<v>> points to v.             *)
(* A Go error is the sequence of the pieces fmt.Errorf formats together;   *)
(* <<>> is the nil error.                                                  *)
(***************************************************************************)
EXTENDS Integers, Sequences, FiniteSets, TLC

(***************************************************************************)
(* Bounds of the explored inputs.                                          *)
(***************************************************************************)
\* registers with index 0..MaxRegIdx (and 31) are drawn as operands
MaxRegIdx == 1
\* function codes 0..MaxFunct (and the extremes) are carried by the records
MaxFunct == 1
\* immediates within MaxImmStep of 0 and of each end of their range are drawn
MaxImmStep == 1
\* concurrent callers of synthesize in SpecPar
NumTasks == 2

(***************************************************************************)
(* InstructionType, synthesis.go:6-16                                      *)
(***************************************************************************)
R_TYPE == 0
I_TYPE == 1
S_TYPE == 2
B_TYPE == 3
U_TYPE == 4
J_TYPE == 5

\* var instructionSet = map[string]Instruction{...}: 0b0110011 = 51
InitialInstructionSet ==
    ("add"  :> [format |-> R_TYPE, opcode |-> 51, funct3 |-> 0, funct7 |-> 0])  @@
    ("sub"  :> [format |-> R_TYPE, opcode |-> 51, funct3 |-> 0, funct7 |-> 32]) @@
    ("xor"  :> [format |-> R_TYPE, opcode |-> 51, funct3 |-> 4, funct7 |-> 0])  @@
    ("or"   :> [format |-> R_TYPE, opcode |-> 51, funct3 |-> 6, funct7 |-> 0])  @@
    ("and"  :> [format |-> R_TYPE, opcode |-> 51, funct3 |-> 7, funct7 |-> 0])  @@
    ("sll"  :> [format |-> R_TYPE, opcode |-> 51, funct3 |-> 1, funct7 |-> 0])  @@
    ("srl"  :> [format |-> R_TYPE, opcode |-> 51, funct3 |-> 5, funct7 |-> 0])  @@
    ("sra"  :> [format |-> R_TYPE, opcode |-> 51, funct3 |-> 5, funct7 |-> 32]) @@
    ("slt"  :> [format |-> R_TYPE, opcode |-> 51, funct3 |-> 2, funct7 |-> 0])  @@
    ("sltu" :> [format |-> R_TYPE, opcode |-> 51, funct3 |-> 3, funct7 |-> 0])

\* var registerMap = map[string]int{...}
InitialRegisterMap ==
    ("zero" :> 0)  @@ ("ra" :> 1)   @@ ("sp" :> 2)   @@ ("gp" :> 3)  @@
    ("tp" :> 4)    @@ ("t0" :> 5)   @@ ("t1" :> 6)   @@ ("t2" :> 7)  @@
    ("s0" :> 8)    @@ ("s1" :> 9)   @@ ("a0" :> 10)  @@ ("a1" :> 11) @@
    ("a2" :> 12)   @@ ("a3" :> 13)  @@ ("a4" :> 14)  @@ ("a5" :> 15) @@
    ("a6" :> 16)   @@ ("a7" :> 17)  @@ ("s2" :> 18)  @@ ("s3" :> 19) @@
    ("s4" :> 20)   @@ ("s5" :> 21)  @@ ("s6" :> 22)  @@ ("s7" :> 23) @@
    ("s8" :> 24)   @@ ("s9" :> 25)  @@ ("s10" :> 26) @@ ("s11" :> 27) @@
    ("t3" :> 28)   @@ ("t4" :> 29)  @@ ("t5" :> 30)  @@ ("t6" :> 31)

(***************************************************************************)
(* uint32 arithmetic on bit sets                                           *)
(***************************************************************************)
WordBits == 0..31

\* uint32(x) for x in the int32 range: two's complement of a negative x
ToUint32(x) ==
    IF x >= 0
    THEN {i \in 0..30 : (x \div (2^i)) % 2 = 1}
    ELSE WordBits \ {i \in 0..30 : ((-1 - x) \div (2^i)) % 2 = 1}

\* w << k on uint32: bits shifted past bit 31 are lost
ShiftLeft(w, k) == {i + k : i \in w} \cap WordBits

\* w | v
BitOr(w, v) == w \cup v

\* w & v
BitAnd(w, v) == w \cap v

\* the literal 0xFFFF
Mask16 == 0..15

\* the literal 0x3FFFFFF
Mask26 == 0..25

\* the unsigned value of bits lo..hi of w (hi - lo < 31)
RECURSIVE Field(_, _, _)
Field(w, lo, hi) ==
    IF hi < lo THEN 0
    ELSE (IF lo \in w THEN 1 ELSE 0) + 2 * Field(w, lo + 1, hi)

(***************************************************************************)
(* Results: (uint32, error)                                                *)
(***************************************************************************)
NilError == <<>>

Result(word, err) == [word |-> word, err |-> err]

\* the value of a result variable before the call has returned
NoResult == [word |-> {}, err |-> <<"pending">>]

(***************************************************************************)
(* Map reads                                                               *)
(***************************************************************************)
\* a read that takes the zero value for absence (if v == 0 instead of !ok)
MapReadZeroAbsent(m, k, zero) ==
    [value |-> IF k \in DOMAIN m THEN m[k] ELSE zero,
     ok    |-> k \in DOMAIN m /\ m[k] # zero,
     map   |-> m]

\* a read that leaves the zero value behind under an absent key
MapReadInserting(m, k, zero) ==
    [value |-> IF k \in DOMAIN m THEN m[k] ELSE zero,
     ok    |-> k \in DOMAIN m,
     map   |-> IF k \in DOMAIN m THEN m ELSE m @@ (k :> zero)]

\* Go's  v, ok := m[k] : the zero value and false for an absent key; the read
\* leaves the map as it is
MapRead(m, k, zero) ==
    [value |-> IF k \in DOMAIN m THEN m[k] ELSE zero,
     ok    |-> k \in DOMAIN m,
     map   |-> m]

\* the zero value of Instruction
ZeroInstruction == [format |-> R_TYPE, opcode |-> 0, funct3 |-> 0, funct7 |-> 0]

\* what an encoder hands back, with the register table as the call left it
Encoded(word, err, regs) == [word |-> word, err |-> err, regs |-> regs]

(***************************************************************************)
(* The format encoders                                                     *)
(***************************************************************************)
\* synthesizeRType with the rs2 error carrying the label of rs1
synthesizeRTypeSourceLabel(asm, instruction, rmap) ==
    LET source      == MapRead(rmap, asm.rs1, 0)
        target      == MapRead(source.map, asm.rs2, 0)
        destination == MapRead(target.map, asm.rd, 0)
    IN  IF ~source.ok
        THEN Encoded({}, <<"invalid source register: ", asm.rs1>>, source.map)
        ELSE IF ~target.ok
        THEN Encoded({}, <<"invalid source register: ", asm.rs2>>, target.map)
        ELSE IF ~destination.ok
        THEN Encoded({}, <<"invalid destination register: ", asm.rd>>,
                     destination.map)
        ELSE LET e0 == ShiftLeft(ToUint32(instruction.opcode), 26)
                 e1 == BitOr(e0, ShiftLeft(ToUint32(source.value), 21))
                 e2 == BitOr(e1, ShiftLeft(ToUint32(target.value), 16))
                 e3 == BitOr(e2, ShiftLeft(ToUint32(destination.value), 11))
                 e4 == BitOr(e3, ShiftLeft(ToUint32(asm.funct3), 12))
                 e5 == BitOr(e4, ShiftLeft(ToUint32(asm.funct7), 25))
             IN  Encoded(e5, NilError, destination.map)

\* func synthesizeRType(asm RTypeInstruction, instruction Instruction)
synthesizeRType(asm, instruction, rmap) ==
    LET source      == MapRead(rmap, asm.rs1, 0)
        target      == MapRead(source.map, asm.rs2, 0)
        destination == MapRead(target.map, asm.rd, 0)
    IN  IF ~source.ok
        THEN Encoded({}, <<"invalid source register: ", asm.rs1>>, source.map)
        ELSE IF ~target.ok
        THEN Encoded({}, <<"invalid target register: ", asm.rs2>>, target.map)
        ELSE IF ~destination.ok
        THEN Encoded({}, <<"invalid destination register: ", asm.rd>>,
                     destination.map)
        ELSE LET e0 == ShiftLeft(ToUint32(instruction.opcode), 26)
                 e1 == BitOr(e0, ShiftLeft(ToUint32(source.value), 21))
                 e2 == BitOr(e1, ShiftLeft(ToUint32(target.value), 16))
                 e3 == BitOr(e2, ShiftLeft(ToUint32(destination.value), 11))
                 e4 == BitOr(e3, ShiftLeft(ToUint32(asm.funct3), 12))
                 e5 == BitOr(e4, ShiftLeft(ToUint32(asm.funct7), 25))
             IN  Encoded(e5, NilError, destination.map)

\* synthesizeIType with the immediate combined unmasked
synthesizeITypeUnmasked(asm, instruction, rmap) ==
    LET source == MapRead(rmap, asm.rs1, 0)
        target == MapRead(source.map, asm.rd, 0)
    IN  IF ~source.ok
        THEN Encoded({}, <<"invalid source register: ", asm.rs1>>, source.map)
        ELSE IF ~target.ok
        THEN Encoded({}, <<"invalid target register: ", asm.rd>>, target.map)
        ELSE LET e0 == ShiftLeft(ToUint32(instruction.opcode), 26)
                 e1 == BitOr(e0, ShiftLeft(ToUint32(source.value), 21))
                 e2 == BitOr(e1, ShiftLeft(ToUint32(target.value), 16))
                 e3 == BitOr(e2, ToUint32(asm.imm))
             IN  Encoded(e3, NilError, target.map)

\* func synthesizeIType(asm ITypeInstruction, instruction Instruction)
synthesizeIType(asm, instruction, rmap) ==
    LET source == MapRead(rmap, asm.rs1, 0)
        target == MapRead(source.map, asm.rd, 0)
    IN  IF ~source.ok
        THEN Encoded({}, <<"invalid source register: ", asm.rs1>>, source.map)
        ELSE IF ~target.ok
        THEN Encoded({}, <<"invalid target register: ", asm.rd>>, target.map)
        ELSE LET e0 == ShiftLeft(ToUint32(instruction.opcode), 26)
                 e1 == BitOr(e0, ShiftLeft(ToUint32(source.value), 21))
                 e2 == BitOr(e1, ShiftLeft(ToUint32(target.value), 16))
                 e3 == BitOr(e2, BitAnd(ToUint32(asm.imm), Mask16))
             IN  Encoded(e3, NilError, target.map)

\* func synthesizeJType(asm JTypeInstruction, instruction Instruction)
synthesizeJType(asm, instruction, rmap) ==
    LET destination == MapRead(rmap, asm.rd, 0)
    IN  IF ~destination.ok
        THEN Encoded({}, <<"invalid destination register: ", asm.rd>>,
                     destination.map)
        ELSE LET e0 == ShiftLeft(ToUint32(instruction.opcode), 26)
                 e1 == BitOr(e0, ShiftLeft(ToUint32(destination.value), 16))
                 e2 == BitOr(e1, BitAnd(ToUint32(asm.imm), Mask26))
             IN  Encoded(e2, NilError, destination.map)

\* the encoder named by kind ("R", "I", "J") applied to its arguments
callEncoder(kind, asm, instruction, rmap) ==
    CASE kind = "R" -> synthesizeRType(asm, instruction, rmap)
      [] kind = "I" -> synthesizeIType(asm, instruction, rmap)
      [] kind = "J" -> synthesizeJType(asm, instruction, rmap)

(***************************************************************************)
(* The dispatcher, piece by piece                                          *)
(***************************************************************************)
\* synthesize's error for a mnemonic that instructionSet does not hold
invalidInstructionName(name) == Result({}, <<"invalid instruction name: ", name>>)

\* the switch on instruction.format: the encoder a format selects, "" for
\* the default branch
encoderOf(format) ==
    CASE format = R_TYPE -> "R"
      [] format = I_TYPE -> "I"
      [] format = J_TYPE -> "J"
      [] OTHER           -> ""

\* the pointer of the record that the selected case dereferences
shapeOf(kind, asm) ==
    CASE kind = "R" -> asm.rType
      [] kind = "I" -> asm.iType
      [] kind = "J" -> asm.jType

\* the default branch of the switch
unknownInstructionType(format) ==
    Result({}, <<"unknown instruction type: ", ToString(format)>>)

\* what a case of the switch returns from its encoder's result
wrapResult(kind, e) ==
    IF e.err # NilError
    THEN Result({}, <<"error synthesizing " \o kind \o "-type instruction: ">> \o e.err)
    ELSE Result(e.word, NilError)

\* func synthesize(asm AssemblyInstruction) as one call on the given tables:
\* its result, whether it panicked (a nil shape dereferenced), and the
\* tables as it left them
synthesize(asm, iset, rmap) ==
    LET found == MapRead(iset, asm.name, ZeroInstruction)
        kind  == encoderOf(found.value.format)
    IN  IF ~found.ok
        THEN [ret |-> invalidInstructionName(asm.name), panicked |-> FALSE,
              iset |-> found.map, regs |-> rmap]
        ELSE IF kind = ""
        THEN [ret |-> unknownInstructionType(found.value.format),
              panicked |-> FALSE, iset |-> found.map, regs |-> rmap]
        ELSE IF shapeOf(kind, asm) = <<>>
        THEN [ret |-> NoResult, panicked |-> TRUE,
              iset |-> found.map, regs |-> rmap]
        ELSE LET e == callEncoder(kind, shapeOf(kind, asm)[1], found.value, rmap)
             IN  [ret |-> wrapResult(kind, e), panicked |-> FALSE,
                  iset |-> found.map, regs |-> e.regs]

(***************************************************************************)
(* The inputs that are drawn                                               *)
(***************************************************************************)
Mnemonics == DOMAIN InitialInstructionSet

\* strings that are no key of instructionSet ("ADD": the match is exact)
UnknownMnemonics == {"addi", "ADD"}

\* strings that are no key of registerMap
InvalidRegs == {"x1", "ZERO"}

ValidRegSample ==
    {n \in DOMAIN InitialRegisterMap :
        InitialRegisterMap[n] <= MaxRegIdx \/ InitialRegisterMap[n] = 31}

RegSample == ValidRegSample \cup InvalidRegs

\* uint8 function codes a record may carry
Funct3Sample == (0..MaxFunct) \cup {4, 255}

Funct7Sample == (0..MaxFunct) \cup {8, 32, 255}

\* int16 immediates
Imm16Sample ==
    ((-MaxImmStep)..MaxImmStep)
    \cup {32767 - k : k \in 0..MaxImmStep}
    \cup {-32768 + k : k \in 0..MaxImmStep}

\* int32 immediates: around 0, around 2^16 and 2^26, the register field's
\* bits (0x1F0000), and both ends of the range
Imm32Sample ==
    ((-MaxImmStep)..MaxImmStep)
    \cup {65536 - k : k \in 0..MaxImmStep}
    \cup {67108864 - k : k \in 0..MaxImmStep}
    \cup {67108864 + k : k \in 0..MaxImmStep}
    \cup {2031616}
    \cup {2147483647 - k : k \in 0..MaxImmStep}
    \cup {(-2147483647 - 1) + k : k \in 0..MaxImmStep}

\* type RTypeInstruction
RTypeSample ==
    [opcode : {0}, rs1 : RegSample, rs2 : RegSample, rd : RegSample,
     funct3 : Funct3Sample, funct7 : Funct7Sample]

\* type ITypeInstruction
ITypeSample ==
    [opcode : {0}, rs1 : RegSample, rd : RegSample, funct3 : {0},
     imm : Imm16Sample]

\* type JTypeInstruction
JTypeSample == [opcode : {0}, rd : RegSample, imm : Imm32Sample]

\* one value of each operand shape, for the records that populate several,
\* none, or a shape the mnemonic's format does not read
OneRType ==
    [opcode |-> 0, rs1 |-> "ra", rs2 |-> "zero", rd |-> "t6",
     funct3 |-> 0, funct7 |-> 0]

OneIType == [opcode |-> 0, rs1 |-> "ra", rd |-> "t6", funct3 |-> 0, imm |-> 1]

OneSType == [opcode |-> 0, rs1 |-> "ra", rs2 |-> "t6", funct3 |-> 0, imm |-> 1]

OneBType == [opcode |-> 0, rs1 |-> "ra", rs2 |-> "t6", funct3 |-> 0, imm |-> 1]

OneUType == [opcode |-> 0, rd |-> "t6", imm |-> 1]

OneJType == [opcode |-> 0, rd |-> "t6", imm |-> 1]

\* type AssemblyInstruction with only rType populated
RTypeRecord(name, r) ==
    [name |-> name, rType |-> <<r>>, iType |-> <<>>, sType |-> <<>>,
     bType |-> <<>>, uType |-> <<>>, jType |-> <<>>]

\* every mnemonic of the table with every register-register operand drawn
MatchingRecords == {RTypeRecord(n, r) : n \in Mnemonics, r \in RTypeSample}

\* every mnemonic, known or not, with every subset of the shapes populated
ShapeRecords ==
    [name : Mnemonics \cup UnknownMnemonics,
     rType : {<<>>, <<OneRType>>}, iType : {<<>>, <<OneIType>>},
     sType : {<<>>, <<OneSType>>}, bType : {<<>>, <<OneBType>>},
     uType : {<<>>, <<OneUType>>}, jType : {<<>>, <<OneJType>>}]

\* unknown mnemonics with a register-register operand whose registers vary
UnknownRecords ==
    {RTypeRecord(n, [OneRType EXCEPT !.rs1 = r]) :
        n \in UnknownMnemonics, r \in RegSample}

Records == MatchingRecords \cup ShapeRecords \cup UnknownRecords

\* the records concurrent callers draw: encodable (twice, differing in the
\* function code only), an unknown register, an unknown mnemonic, a missing
\* shape
ParRecords ==
    {RTypeRecord("add", OneRType),
     RTypeRecord("sub", [OneRType EXCEPT !.funct7 = 32]),
     RTypeRecord("add", [OneRType EXCEPT !.rs2 = "x1"]),
     RTypeRecord("addi", OneRType),
     [RTypeRecord("add", OneRType) EXCEPT !.rType = <<>>, !.iType = <<OneIType>>]}

\* opcodes of descriptors handed to an encoder called on its own: 0b0010011,
\* 0b0110011, 0b1101111 and the largest uint8
OpcodeSample == {19, 51, 111, 255}

\* type Instruction, for the encoder of the given format
InstructionSample(format) ==
    [format : {format}, opcode : OpcodeSample, funct3 : {0}, funct7 : {0}]

(***************************************************************************)
(* State                                                                   *)
(***************************************************************************)
VARIABLES
    instructionSet,  \* the package's instruction table
    registerMap,     \* the package's register table
    pc,              \* per caller: where its call stands
    fn,              \* per caller: the function it called
    asm,             \* per caller: synthesize's argument
    instruction,     \* per caller: the descriptor looked up or handed in
    kind,            \* per caller: the encoder entered ("R", "I", "J")
    operand,         \* per caller: the encoder's asm argument, as <<value>>
    enc,             \* per caller: what the encoder returned
    ret              \* per caller: what the called function returned

vars ==
    <<instructionSet, registerMap, pc, fn, asm, instruction, kind, operand,
      enc, ret>>

Tasks == 1..NumTasks

\* the zero value of AssemblyInstruction
NoAsm ==
    [name |-> "", rType |-> <<>>, iType |-> <<>>, sType |-> <<>>,
     bType |-> <<>>, uType |-> <<>>, jType |-> <<>>]

Init ==
    /\ instructionSet = InitialInstructionSet
    /\ registerMap = InitialRegisterMap
    /\ pc = [t \in Tasks |-> "idle"]
    /\ fn = [t \in Tasks |-> ""]
    /\ asm = [t \in Tasks |-> NoAsm]
    /\ instruction = [t \in Tasks |-> ZeroInstruction]
    /\ kind = [t \in Tasks |-> ""]
    /\ operand = [t \in Tasks |-> <<>>]
    /\ enc = [t \in Tasks |-> NoResult]
    /\ ret = [t \in Tasks |-> NoResult]

\* a panic that nothing recovers ends the process, every caller with it
Running == \A t \in Tasks : pc[t] # "panicked"

(***************************************************************************)
(* synthesize, step by step                                                *)
(***************************************************************************)
\* a caller calls synthesize(a)
CallSynthesize(t, a) ==
    /\ Running
    /\ pc[t] = "idle"
    /\ pc' = [pc EXCEPT ![t] = "lookup"]
    /\ fn' = [fn EXCEPT ![t] = "synthesize"]
    /\ asm' = [asm EXCEPT ![t] = a]
    /\ UNCHANGED <<instructionSet, registerMap, instruction, kind, operand,
                   enc, ret>>

\* a lookup that dereferences asm.rType before it looks the mnemonic up
LookupShapeFirst(t) ==
    /\ Running
    /\ pc[t] = "lookup"
    /\ LET found == MapRead(instructionSet, asm[t].name, ZeroInstruction)
       IN  /\ instructionSet' = found.map
           /\ instruction' = [instruction EXCEPT ![t] = found.value]
           /\ IF asm[t].rType = <<>>
              THEN /\ pc' = [pc EXCEPT ![t] = "panicked"]
                   /\ ret' = ret
              ELSE IF found.ok
              THEN /\ pc' = [pc EXCEPT ![t] = "switch"]
                   /\ ret' = ret
              ELSE /\ pc' = [pc EXCEPT ![t] = "done"]
                   /\ ret' = [ret EXCEPT ![t] = invalidInstructionName(asm[t].name)]
    /\ UNCHANGED <<registerMap, fn, asm, kind, operand, enc>>

\* instruction, ok := instructionSet[asm.name]; if !ok { return 0, error }
Lookup(t) ==
    /\ Running
    /\ pc[t] = "lookup"
    /\ LET found == MapRead(instructionSet, asm[t].name, ZeroInstruction)
       IN  /\ instructionSet' = found.map
           /\ instruction' = [instruction EXCEPT ![t] = found.value]
           /\ IF found.ok
              THEN /\ pc' = [pc EXCEPT ![t] = "switch"]
                   /\ ret' = ret
              ELSE /\ pc' = [pc EXCEPT ![t] = "done"]
                   /\ ret' = [ret EXCEPT ![t] = invalidInstructionName(asm[t].name)]
    /\ UNCHANGED <<registerMap, fn, asm, kind, operand, enc>>

\* switch instruction.format: the case dereferences its shape's pointer (a
\* nil pointer panics) and enters its encoder; the default case returns
Dispatch(t) ==
    /\ Running
    /\ pc[t] = "switch"
    /\ LET k == encoderOf(instruction[t].format)
       IN  IF k = ""
           THEN /\ pc' = [pc EXCEPT ![t] = "done"]
                /\ ret' = [ret EXCEPT ![t] =
                              unknownInstructionType(instruction[t].format)]
                /\ UNCHANGED <<kind, operand>>
           ELSE IF shapeOf(k, asm[t]) = <<>>
           THEN /\ pc' = [pc EXCEPT ![t] = "panicked"]
                /\ UNCHANGED <<ret, kind, operand>>
           ELSE /\ pc' = [pc EXCEPT ![t] = "encoder"]
                /\ kind' = [kind EXCEPT ![t] = k]
                /\ operand' = [operand EXCEPT ![t] = shapeOf(k, asm[t])]
                /\ ret' = ret
    /\ UNCHANGED <<instructionSet, registerMap, fn, asm, instruction, enc>>

\* the encoder runs and returns: to synthesize's case, or to the caller
\* that called it on its own
Encode(t) ==
    /\ Running
    /\ pc[t] = "encoder"
    /\ LET e == callEncoder(kind[t], operand[t][1], instruction[t], registerMap)
       IN  /\ registerMap' = e.regs
           /\ enc' = [enc EXCEPT ![t] = Result(e.word, e.err)]
           /\ IF fn[t] = "synthesize"
              THEN /\ pc' = [pc EXCEPT ![t] = "wrap"]
                   /\ ret' = ret
              ELSE /\ pc' = [pc EXCEPT ![t] = "done"]
                   /\ ret' = [ret EXCEPT ![t] = Result(e.word, e.err)]
    /\ UNCHANGED <<instructionSet, fn, asm, instruction, kind, operand>>

\* if err != nil { return 0, wrapped } else { return encodedInstruction, nil }
Wrap(t) ==
    /\ Running
    /\ pc[t] = "wrap"
    /\ pc' = [pc EXCEPT ![t] = "done"]
    /\ ret' = [ret EXCEPT ![t] = wrapResult(kind[t], enc[t])]
    /\ UNCHANGED <<instructionSet, registerMap, fn, asm, instruction, kind,
                   operand, enc>>

\* the caller takes the result; the record and the call's locals are gone
Return(t) ==
    /\ Running
    /\ pc[t] = "done"
    /\ pc' = [pc EXCEPT ![t] = "idle"]
    /\ fn' = [fn EXCEPT ![t] = ""]
    /\ asm' = [asm EXCEPT ![t] = NoAsm]
    /\ instruction' = [instruction EXCEPT ![t] = ZeroInstruction]
    /\ kind' = [kind EXCEPT ![t] = ""]
    /\ operand' = [operand EXCEPT ![t] = <<>>]
    /\ enc' = [enc EXCEPT ![t] = NoResult]
    /\ ret' = [ret EXCEPT ![t] = NoResult]
    /\ UNCHANGED <<instructionSet, registerMap>>

(***************************************************************************)
(* The register-immediate and jump encoders called on their own: no        *)
(* mnemonic of instructionSet has their format                             *)
(***************************************************************************)
CallEncoder(t, f, k, a, d) ==
    /\ Running
    /\ pc[t] = "idle"
    /\ pc' = [pc EXCEPT ![t] = "encoder"]
    /\ fn' = [fn EXCEPT ![t] = f]
    /\ kind' = [kind EXCEPT ![t] = k]
    /\ operand' = [operand EXCEPT ![t] = <<a>>]
    /\ instruction' = [instruction EXCEPT ![t] = d]
    /\ UNCHANGED <<instructionSet, registerMap, asm, enc, ret>>

\* a caller calls synthesizeIType(a, d)
CallIType(t, a, d) == CallEncoder(t, "synthesizeIType", "I", a, d)

\* a caller calls synthesizeJType(a, d)
CallJType(t, a, d) == CallEncoder(t, "synthesizeJType", "J", a, d)

(***************************************************************************)
(* Specifications                                                          *)
(***************************************************************************)
\* the steps of a call under way
Step(t) == Lookup(t) \/ Dispatch(t) \/ Encode(t) \/ Wrap(t) \/ Return(t)

\* a caller that is between calls
Idle(t) == Running /\ pc[t] = "idle"

\* one caller, every drawn input
Next ==
    \/ /\ Idle(1)
       /\ \E a \in Records : CallSynthesize(1, a)
    \/ /\ Idle(1)
       /\ \E a \in ITypeSample, d \in InstructionSample(I_TYPE) :
              CallIType(1, a, d)
    \/ /\ Idle(1)
       /\ \E a \in JTypeSample, d \in InstructionSample(J_TYPE) :
              CallJType(1, a, d)
    \/ Step(1)

Spec == Init /\ [][Next]_vars

\* concurrent callers of synthesize, one task per instruction
NextPar ==
    \E t \in Tasks :
        \/ /\ Idle(t)
           /\ \E a \in ParRecords : CallSynthesize(t, a)
        \/ Step(t)

SpecPar == Init /\ [][NextPar]_vars

(***************************************************************************)
(* Vocabulary of the properties                                            *)
(***************************************************************************)
\* the canonical index of a register name
IndexOf(name) == InitialRegisterMap[name]

IsRegister(name) == name \in DOMAIN InitialRegisterMap

\* synthesize has returned to caller t
Returned(t) == fn[t] = "synthesize" /\ pc[t] = "done"

\* the shape that the format of a table mnemonic reads from record a
DeclaredShape(a) == shapeOf(encoderOf(InitialInstructionSet[a.name].format), a)

\* caller t's record names a table mnemonic and populates its format's shape
Matching(t) ==
    /\ fn[t] = "synthesize"
    /\ asm[t].name \in Mnemonics
    /\ DeclaredShape(asm[t]) # <<>>

\* caller t's record names a table mnemonic and leaves its format's shape out
Mismatched(t) ==
    /\ fn[t] = "synthesize"
    /\ asm[t].name \in Mnemonics
    /\ DeclaredShape(asm[t]) = <<>>

\* synthesize returned a word for a register-register record
EncodedRType(t) ==
    /\ Returned(t)
    /\ Matching(t)
    /\ kind[t] = "R"
    /\ ret[t].err = NilError

\* the register operand slots of each encoder
Slots(k) ==
    CASE k = "R" -> {"rs1", "rs2", "rd"}
      [] k = "I" -> {"rs1", "rd"}
      [] k = "J" -> {"rd"}
      [] OTHER   -> {}

\* the slots of an operand whose name is no register
BadSlots(k, op) == {s \in Slots(k) : ~IsRegister(op[s])}

\* the encoder entered by caller t has returned
EncoderReturned(t) == kind[t] # "" /\ enc[t] # NoResult

RoleLabels ==
    {"invalid source register: ", "invalid target register: ",
     "invalid destination register: "}

\* a 16-bit field read as a signed value
Signed16(u) == IF u >= 32768 THEN u - 65536 ELSE u

(***************************************************************************)
(* C1: a record whose mnemonic is in the table but whose shape for the     *)
(* mnemonic's format is not populated makes synthesize return an error;    *)
(* the call never panics.                                                  *)
(***************************************************************************)
C1_MismatchReturnsError ==
    \A t \in Tasks :
        Mismatched(t) =>
            /\ pc[t] # "panicked"
            /\ (pc[t] = "done" => ret[t].err # NilError)

(***************************************************************************)
(* C2: for a mnemonic that is no key of the table, synthesize returns word *)
(* 0 and the unknown-instruction error, whatever shapes the record has; no *)
(* case of the switch is entered, no shape dereferenced, no encoder run.   *)
(***************************************************************************)
C2_UnknownInstruction ==
    \A t \in Tasks :
        (fn[t] = "synthesize" /\ asm[t].name \notin Mnemonics) =>
            /\ pc[t] \in {"lookup", "done"}
            /\ kind[t] = ""
            /\ operand[t] = <<>>
            /\ enc[t] = NoResult
            /\ (pc[t] = "done" =>
                    /\ ret[t].word = {}
                    /\ ret[t].err = <<"invalid instruction name: ", asm[t].name>>)

\* an unknown mnemonic with every shape unpopulated has been answered
C2_Witness ==
    \E t \in Tasks :
        /\ Returned(t)
        /\ asm[t].name \in UnknownMnemonics
        /\ \A f \in {"rType", "iType", "sType", "bType", "uType", "jType"} :
               asm[t][f] = <<>>
        /\ ret[t].err # NilError

(***************************************************************************)
(* C3: a table mnemonic with its format's shape populated and every        *)
(* register operand a canonical name encodes: a word, no error, no panic.  *)
(***************************************************************************)
C3_ValidEncodes ==
    \A t \in Tasks :
        (Matching(t) /\ BadSlots("R", DeclaredShape(asm[t])[1]) = {}) =>
            /\ pc[t] # "panicked"
            /\ (pc[t] = "done" => ret[t].err = NilError)

\* a word came back for three distinct valid registers, one of them zero
C3_Witness ==
    \E t \in Tasks :
        /\ EncodedRType(t)
        /\ asm[t].name = "sltu"
        /\ asm[t].rType[1].rd = "zero"
        /\ Cardinality({asm[t].rType[1].rs1, asm[t].rType[1].rs2,
                        asm[t].rType[1].rd}) = 3

(***************************************************************************)
(* C4: bits 26..31 of every word synthesize returns equal the opcode the   *)
(* table records for the mnemonic.                                         *)
(***************************************************************************)
C4_OpcodeRoundTrip ==
    \A t \in Tasks :
        EncodedRType(t) =>
            Field(ret[t].word, 26, 31) = InitialInstructionSet[asm[t].name].opcode

(***************************************************************************)
(* C5: the register fields of a register-register word recover the         *)
(* canonical indices: bits 21..25 rs1, bits 16..20 rs2, bits 11..15 rd.    *)
(***************************************************************************)
C5_RegisterFields ==
    \A t \in Tasks :
        EncodedRType(t) =>
            /\ Field(ret[t].word, 21, 25) = IndexOf(asm[t].rType[1].rs1)
            /\ Field(ret[t].word, 16, 20) = IndexOf(asm[t].rType[1].rs2)
            /\ Field(ret[t].word, 11, 15) = IndexOf(asm[t].rType[1].rd)

(***************************************************************************)
(* C6: the function-code bits of a register-register word are the table's: *)
(* the word does not depend on the funct3/funct7 the record carries, and   *)
(* the same record under a mnemonic with other table function bits encodes *)
(* to another word.                                                        *)
(***************************************************************************)
C6_FunctionBitsFromTable ==
    \A t \in Tasks :
        EncodedRType(t) =>
            /\ \A f3 \in Funct3Sample, f7 \in Funct7Sample :
                   synthesize([asm[t] EXCEPT !.rType[1].funct3 = f3,
                                             !.rType[1].funct7 = f7],
                              InitialInstructionSet, InitialRegisterMap).ret.word
                       = ret[t].word
            /\ \A m \in Mnemonics :
                   (/\ InitialInstructionSet[m] # InitialInstructionSet[asm[t].name]
                    /\ InitialInstructionSet[m].opcode
                           = InitialInstructionSet[asm[t].name].opcode)
                   => synthesize([asm[t] EXCEPT !.name = m],
                                 InitialInstructionSet, InitialRegisterMap).ret.word
                          # ret[t].word

(***************************************************************************)
(* C7: an encoder given exactly one operand slot that names no register    *)
(* returns word 0 and an error of a role label and the offending name, and *)
(* the label differs from the one the encoder reports for each other slot. *)
(***************************************************************************)
C7_UnknownRegisterNamesSlot ==
    \A t \in Tasks :
        EncoderReturned(t) =>
            \A s \in BadSlots(kind[t], operand[t][1]) :
                BadSlots(kind[t], operand[t][1]) = {s} =>
                    /\ enc[t].word = {}
                    /\ Len(enc[t].err) = 2
                    /\ enc[t].err[1] \in RoleLabels
                    /\ enc[t].err[2] = operand[t][1][s]
                    /\ \A s2 \in Slots(kind[t]) \ {s} :
                           LET op    == operand[t][1]
                               other == [op EXCEPT ![s] = op[s2], ![s2] = op[s]]
                           IN  callEncoder(kind[t], other, instruction[t],
                                           InitialRegisterMap).err[1]
                                   # enc[t].err[1]

\* the register-immediate encoder has answered for a bad rd, its second slot
C7_Witness ==
    \E t \in Tasks :
        /\ EncoderReturned(t)
        /\ kind[t] = "I"
        /\ BadSlots("I", operand[t][1]) = {"rd"}
        /\ enc[t].err = <<"invalid target register: ", operand[t][1].rd>>

(***************************************************************************)
(* C8: the register-immediate encoder with valid rs1 and rd takes every    *)
(* 16-bit immediate: no error, the low 16 bits are the immediate modulo    *)
(* 2^16 and read back signed as the immediate, and bits 21..25 and 16..20  *)
(* are the indices of rs1 and rd.                                          *)
(***************************************************************************)
C8_ImmediateRoundTrip ==
    \A t \in Tasks :
        (EncoderReturned(t) /\ kind[t] = "I" /\ BadSlots("I", operand[t][1]) = {}) =>
            /\ enc[t].err = NilError
            /\ Field(enc[t].word, 0, 15) = operand[t][1].imm % 65536
            /\ Signed16(Field(enc[t].word, 0, 15)) = operand[t][1].imm
            /\ Field(enc[t].word, 21, 25) = IndexOf(operand[t][1].rs1)
            /\ Field(enc[t].word, 16, 20) = IndexOf(operand[t][1].rd)

\* the largest immediate has been encoded and reads back
C8_Witness ==
    \E t \in Tasks :
        /\ EncoderReturned(t)
        /\ kind[t] = "I"
        /\ operand[t][1].imm = 32767
        /\ operand[t][1].rs1 = "t6"
        /\ enc[t].err = NilError
        /\ Signed16(Field(enc[t].word, 0, 15)) = 32767

(***************************************************************************)
(* C9: the jump encoder with a valid destination masks any immediate into  *)
(* the low 26 bits without an error: they equal the immediate modulo 2^26  *)
(* for every destination, and another destination gives another word.      *)
(***************************************************************************)
C9_AddressFieldMasked ==
    \A t \in Tasks :
        (EncoderReturned(t) /\ kind[t] = "J" /\ BadSlots("J", operand[t][1]) = {}) =>
            /\ enc[t].err = NilError
            /\ Field(enc[t].word, 0, 25) = operand[t][1].imm % 67108864
            /\ \A r \in ValidRegSample \ {operand[t][1].rd} :
                   callEncoder("J", [operand[t][1] EXCEPT !.rd = r],
                               instruction[t], InitialRegisterMap).word
                       # enc[t].word

(***************************************************************************)
(* C10: whatever calls have run or are running, the two tables are as      *)
(* built, every returned result is the one the call gives alone on the     *)
(* tables as built, a panic is the one the call alone gives, and two       *)
(* callers of the same record hold the same result.                        *)
(***************************************************************************)
C10_Purity ==
    /\ instructionSet = InitialInstructionSet
    /\ registerMap = InitialRegisterMap
    /\ \A t \in Tasks :
           LET alone == synthesize(asm[t], InitialInstructionSet, InitialRegisterMap)
           IN  /\ Returned(t) => (~alone.panicked /\ ret[t] = alone.ret)
               /\ pc[t] = "panicked" => alone.panicked
    /\ \A t1, t2 \in Tasks :
           (Returned(t1) /\ Returned(t2) /\ asm[t1] = asm[t2]) => ret[t1] = ret[t2]

\* two callers hold the word of the same record at once
C10_Witness ==
    \E t1, t2 \in Tasks :
        /\ t1 # t2
        /\ Returned(t1)
        /\ Returned(t2)
        /\ asm[t1] = asm[t2]
        /\ ret[t1].err = NilError
        /\ ret[t1].word # {}

=============================================================================
